---- MODULE Spec2Model ----
(***************************************************************************)
(* Consent lifecycle of consent-mcp: the consent_requests table, the       *)
(* PostgresConsentRepository queries over it and the ConsentService        *)
(* operations, each split at its awaited repository / provider calls.      *)
(***************************************************************************)
EXTENDS Integers, FiniteSets, Sequences, TLC

VARIABLES store, next_id, now, sms_provider, email_provider, env, pc, call, result, sent

vars == <<store, next_id, now, sms_provider, email_provider, env, pc, call, result, sent>>

(* ------------------------------ bounds --------------------------------- *)
MaxTime == 1
MaxDays == 2
MaxRequests == 3

Procs == {"p1", "p2"}

(* ------------------------- value objects ------------------------------- *)
PHONE == "phone"
EMAIL == "email"
ContactType == {PHONE, EMAIL}

PENDING == "pending"
GRANTED == "granted"
REVOKED == "revoked"
EXPIRED == "expired"
ConsentStatus == {PENDING, GRANTED, REVOKED, EXPIRED}

ContactInfo(type, value) == [contact_type |-> type, contact_value |-> value]

\* E164_PATTERN.match(value), over the contact values of the model
E164_PATTERN(value) == value \in {"+15551234567", "+15559876543"}

\* ContactInfo.validate_contact_value: does the constructor accept the pair
validate_contact_value(type, value) ==
    IF type = PHONE THEN E164_PATTERN(value)
    ELSE value \in {"bob@example.com", "alice@example.com"}

sample_phone_requester == ContactInfo(PHONE, "+15551234567")
sample_phone_target == ContactInfo(PHONE, "+15559876543")
sample_email_target == ContactInfo(EMAIL, "bob@example.com")
sample_email_requester == ContactInfo(EMAIL, "alice@example.com")

Requesters == {sample_phone_requester}
Targets == {sample_phone_target, sample_email_target}
Scopes == {"wellness_check", "appointment_reminder"}

\* Python None for an optional scope / timestamp / id
NoScope == "<None>"
NoTime == -1
NoId == 0

OptScopes == Scopes \cup {NoScope}
Days == 1..MaxDays

Key(requester, target, scope) ==
    [requester_contact_type |-> requester.contact_type,
     requester_contact_value |-> requester.contact_value,
     target_contact_type |-> target.contact_type,
     target_contact_value |-> target.contact_value,
     scope |-> scope]

Keys == {Key(r, t, s) : r \in Requesters, t \in Targets, s \in Scopes}

RowKey(row) ==
    [requester_contact_type |-> row.requester_contact_type,
     requester_contact_value |-> row.requester_contact_value,
     target_contact_type |-> row.target_contact_type,
     target_contact_value |-> row.target_contact_value,
     scope |-> row.scope]

\* the ids uuid4 hands out, and one more that no request ever gets
Ids == 1..(MaxRequests + 1)

(* ------------------------------ entity --------------------------------- *)
\* ConsentRequest(requester, target, scope, expires_at) with its defaults
ConsentRequest(id, requester, target, scope, expires_at, t) ==
    [id |-> id,
     requester_contact_type |-> requester.contact_type,
     requester_contact_value |-> requester.contact_value,
     target_contact_type |-> target.contact_type,
     target_contact_value |-> target.contact_value,
     scope |-> scope,
     status |-> PENDING,
     expires_at |-> expires_at,
     created_at |-> t,
     updated_at |-> t,
     responded_at |-> NoTime]

\* an expiry test that still counts the instant of expiry as active
is_active_inclusive(row, t) ==
    IF row.status # GRANTED THEN FALSE ELSE t <= row.expires_at

is_active(row, t) ==
    IF row.status # GRANTED THEN FALSE ELSE t < row.expires_at

is_expired(row, t) == t >= row.expires_at

\* ContactInfo with its optional display name
NoName == "<None>"
NamedContactInfo(contact, name) ==
    [contact_type |-> contact.contact_type,
     contact_value |-> contact.contact_value,
     name |-> name]

\* the entity as the caller constructs it, display names included
Entity(id, requester, target, scope, status, expires_at, t) ==
    [id |-> id, requester |-> requester, target |-> target, scope |-> scope,
     status |-> status, expires_at |-> expires_at,
     created_at |-> t, updated_at |-> t, responded_at |-> NoTime]

(* ---------------------------- repository ------------------------------- *)
\* entity -> ORM row: requester_name is NOT NULL, `name or ""` fills it
entity_to_model(entity) ==
    [id |-> entity.id,
     requester_contact_type |-> entity.requester.contact_type,
     requester_contact_value |-> entity.requester.contact_value,
     requester_name |-> IF entity.requester.name \in {NoName, ""}
                        THEN "" ELSE entity.requester.name,
     target_contact_type |-> entity.target.contact_type,
     target_contact_value |-> entity.target.contact_value,
     target_name |-> entity.target.name,
     scope |-> entity.scope,
     status |-> entity.status,
     expires_at |-> entity.expires_at,
     created_at |-> entity.created_at,
     updated_at |-> entity.updated_at,
     responded_at |-> entity.responded_at]

\* ORM row -> entity
model_to_entity(model) ==
    [id |-> model.id,
     requester |-> [contact_type |-> model.requester_contact_type,
                    contact_value |-> model.requester_contact_value,
                    name |-> model.requester_name],
     target |-> [contact_type |-> model.target_contact_type,
                 contact_value |-> model.target_contact_value,
                 name |-> model.target_name],
     scope |-> model.scope,
     status |-> model.status,
     expires_at |-> model.expires_at,
     created_at |-> model.created_at,
     updated_at |-> model.updated_at,
     responded_at |-> model.responded_at]

\* Result.scalar_one_or_none(): no row, the row, or MultipleResultsFound
scalar_one_or_none(rows) ==
    IF rows = {} THEN [kind |-> "none"]
    ELSE IF Cardinality(rows) = 1
         THEN [kind |-> "one", row |-> CHOOSE r \in rows : TRUE]
         ELSE [kind |-> "multiple"]

\* a lookup that forgets its id filter
get_by_id_any(st, request_id) == scalar_one_or_none(st)

get_by_id(st, request_id) ==
    scalar_one_or_none({row \in st : row.id = request_id})

\* the active-consent query without its target filter
get_active_consent_any_target(st, t, requester, target, scope) ==
    scalar_one_or_none(
        {row \in st :
            /\ row.requester_contact_type = requester.contact_type
            /\ row.requester_contact_value = requester.contact_value
            /\ row.status = GRANTED
            /\ row.expires_at > t
            /\ (scope # NoScope /\ scope # "") => row.scope = scope})

\* the active-consent query with expires_at >= now
get_active_consent_inclusive(st, t, requester, target, scope) ==
    scalar_one_or_none(
        {row \in st :
            /\ row.requester_contact_type = requester.contact_type
            /\ row.requester_contact_value = requester.contact_value
            /\ row.target_contact_type = target.contact_type
            /\ row.target_contact_value = target.contact_value
            /\ row.status = GRANTED
            /\ row.expires_at >= t
            /\ (scope # NoScope /\ scope # "") => row.scope = scope})

get_active_consent(st, t, requester, target, scope) ==
    scalar_one_or_none(
        {row \in st :
            /\ row.requester_contact_type = requester.contact_type
            /\ row.requester_contact_value = requester.contact_value
            /\ row.target_contact_type = target.contact_type
            /\ row.target_contact_value = target.contact_value
            /\ row.status = GRANTED
            /\ row.expires_at > t
            /\ (scope # NoScope /\ scope # "") => row.scope = scope})

\* the pending-request query without its scope filter
get_pending_request_any_scope(st, requester, target, scope) ==
    scalar_one_or_none(
        {row \in st :
            /\ row.requester_contact_type = requester.contact_type
            /\ row.requester_contact_value = requester.contact_value
            /\ row.target_contact_type = target.contact_type
            /\ row.target_contact_value = target.contact_value
            /\ row.status = PENDING})

\* a pending-request query that also compares the display names
get_pending_request_same_names(st, requester, target, scope) ==
    scalar_one_or_none(
        {row \in st :
            /\ row.requester_contact_type = requester.contact_type
            /\ row.requester_contact_value = requester.contact_value
            /\ row.requester_name = requester.name
            /\ row.target_contact_type = target.contact_type
            /\ row.target_contact_value = target.contact_value
            /\ row.target_name = target.name
            /\ row.scope = scope
            /\ row.status = PENDING})

get_pending_request(st, requester, target, scope) ==
    scalar_one_or_none(
        {row \in st :
            /\ row.requester_contact_type = requester.contact_type
            /\ row.requester_contact_value = requester.contact_value
            /\ row.target_contact_type = target.contact_type
            /\ row.target_contact_value = target.contact_value
            /\ row.scope = scope
            /\ row.status = PENDING})

\* a constraint that only separates rows of equal status
violates_unique_per_status(st, row) ==
    \E other \in st : RowKey(other) = RowKey(row) /\ other.status = row.status

\* a constraint that only counts the rows still PENDING or GRANTED
violates_unique_active(st, row) ==
    \E other \in st :
        RowKey(other) = RowKey(row) /\ other.status \in {PENDING, GRANTED}

\* uq_consent_requester_target_scope: the flush raises IntegrityError
violates_unique(st, row) ==
    \E other \in st : RowKey(other) = RowKey(row)

\* The rows committed when the service's session was opened.  The session is
\* committed only when its context exits, at shutdown, so nothing the service
\* writes during its life is committed.
session_committed == {}

\* AsyncSession.rollback(): the session's uncommitted work is discarded
rollback(st) == session_committed

\* create: the table as the session sees it after the call
create(st, row) ==
    IF violates_unique(st, row) THEN rollback(st) ELSE st \cup {row}

\* an UPDATE whose WHERE clause is missing
update_status_no_where(st, t, request_id, status) ==
    {[row EXCEPT !.status = status,
                 !.updated_at = t,
                 !.responded_at =
                     IF status \in {GRANTED, REVOKED} THEN t ELSE NoTime] : row \in st}

\* an update that stamps updated_at only
update_status_unstamped(st, t, request_id, status) ==
    {IF row.id = request_id
        THEN [row EXCEPT !.status = status, !.updated_at = t]
        ELSE row : row \in st}

update_status(st, t, request_id, status) ==
    {IF row.id = request_id
        THEN [row EXCEPT !.status = status,
                         !.updated_at = t,
                         !.responded_at =
                             IF status \in {GRANTED, REVOKED} THEN t ELSE NoTime]
        ELSE row : row \in st}

\* a sweep that takes expires_at < now instead of expires_at <= now
expire_matches_strict(st, t) ==
    {row \in st : row.status \in {PENDING, GRANTED} /\ row.expires_at < t}

\* a sweep that also matches the rows that are already EXPIRED
expire_matches_with_expired(st, t) ==
    {row \in st : row.status \in {PENDING, GRANTED, EXPIRED} /\ row.expires_at <= t}

\* a sweep whose WHERE clause lost its status filter
expire_matches_any_status(st, t) ==
    {row \in st : row.expires_at <= t}

expire_matches(st, t) ==
    {row \in st : row.status \in {PENDING, GRANTED} /\ row.expires_at <= t}

\* a sweep that stamps updated_at and forgets the status
expire_old_requests_stamp_only(st, t) ==
    {IF row \in expire_matches(st, t)
        THEN [row EXCEPT !.updated_at = t]
        ELSE row : row \in st}

\* a sweep that clears responded_at the way update_status(EXPIRED) does
expire_old_requests_unanswered(st, t) ==
    {IF row \in expire_matches(st, t)
        THEN [row EXCEPT !.status = EXPIRED, !.updated_at = t,
                         !.responded_at = NoTime]
        ELSE row : row \in st}

expire_old_requests(st, t) ==
    {IF row \in expire_matches(st, t)
        THEN [row EXCEPT !.status = EXPIRED, !.updated_at = t]
        ELSE row : row \in st}

(* ------------------------------ service -------------------------------- *)
\* a provider lookup that skips is_configured()
get_provider_unchecked(contact_type, sms, email) ==
    IF contact_type = PHONE
    THEN IF sms # "absent" THEN "sms" ELSE "ProviderNotConfiguredError"
    ELSE IF email # "absent" THEN "email" ELSE "ProviderNotConfiguredError"

\* _get_provider: the provider to use, or ProviderNotConfiguredError
get_provider(contact_type, sms, email) ==
    IF contact_type = PHONE
    THEN IF sms = "configured" THEN "sms" ELSE "ProviderNotConfiguredError"
    ELSE IF email = "configured" THEN "email" ELSE "ProviderNotConfiguredError"

\* expires_at that forgets the requested number of days
expires_at_now(t, expires_in_days) == t

\* expires_at = datetime.utcnow() + timedelta(days=expires_in_days)
expires_at_from(t, expires_in_days) == t + expires_in_days

NoCall == [op |-> "none"]
NoResult == [op |-> "none"]

Raise(op, error) == [op |-> op, outcome |-> "raise", error |-> error]

\* an "already granted" answer reported as a fresh pending request
already_granted_as_pending(existing) ==
    [op |-> "request_consent", outcome |-> "return",
     request_id |-> existing.id, status |-> "pending",
     message |-> "Active consent already exists",
     expires_at |-> existing.expires_at, delivery |-> "none"]

already_granted_result(existing) ==
    [op |-> "request_consent", outcome |-> "return",
     request_id |-> existing.id, status |-> "already_granted",
     message |-> "Active consent already exists",
     expires_at |-> existing.expires_at, delivery |-> "none"]

already_pending_result(pending) ==
    [op |-> "request_consent", outcome |-> "return",
     request_id |-> pending.id, status |-> "pending",
     message |-> "Consent request already pending",
     expires_at |-> pending.expires_at, delivery |-> "none"]

\* a failed delivery reported as a failed request
sent_result_failed(saved_id, expires_at, success) ==
    [op |-> "request_consent", outcome |-> "return",
     request_id |-> saved_id, status |-> IF success THEN "pending" ELSE "failed",
     message |-> "Consent request sent",
     expires_at |-> expires_at,
     delivery |-> IF success THEN "success" ELSE "failure"]

sent_result(saved_id, expires_at, success) ==
    [op |-> "request_consent", outcome |-> "return",
     request_id |-> saved_id, status |-> "pending",
     message |-> "Consent request sent",
     expires_at |-> expires_at,
     delivery |-> IF success THEN "success" ELSE "failure"]

\* a check that lets the caller through when the lookup misses
check_consent_fail_open(consent, t) ==
    consent.kind = "none" \/ is_active(consent.row, t)

check_consent(consent, t) ==
    consent.kind # "none" /\ is_active(consent.row, t)

action_result(op, success, new_status, message) ==
    [op |-> op, outcome |-> "return", success |-> success,
     new_status |-> new_status, message |-> message]

(* ------------------------------- state --------------------------------- *)
ProviderStates == {"absent", "unconfigured", "configured"}

\* Settings.env and the property is_test_env read from it
Envs == {"test", "development", "production"}

\* a test-environment check that only excludes production
is_test_env_not_production(e) == e # "production"

is_test_env(e) == e = "test"

Init ==
    /\ store = session_committed
    /\ next_id = 1
    /\ now = 0
    /\ sms_provider \in ProviderStates
    /\ email_provider \in ProviderStates
    /\ env \in Envs
    /\ pc = [p \in Procs |-> "idle"]
    /\ call = [p \in Procs |-> NoCall]
    /\ result = [p \in Procs |-> NoResult]
    /\ sent = [k \in Keys |-> 0]

Finish(p, res) ==
    /\ pc' = [pc EXCEPT ![p] = "done"]
    /\ result' = [result EXCEPT ![p] = res]

Goto(p, label) ==
    /\ pc' = [pc EXCEPT ![p] = label]
    /\ result' = result

\* the wall clock advances
Tick ==
    /\ now < MaxTime
    /\ now' = now + 1
    /\ UNCHANGED <<store, next_id, sms_provider, email_provider, env, pc, call, result, sent>>

\* request_consent, lines 93-105: look for an active consent
RcActive(p, requester, target, scope, expires_in_days) ==
    /\ pc[p] = "idle"
    /\ call' = [call EXCEPT ![p] =
                   [op |-> "request_consent", requester |-> requester,
                    target |-> target, scope |-> scope,
                    expires_in_days |-> expires_in_days,
                    saved_id |-> NoId, expires_at |-> NoTime]]
    /\ LET existing == get_active_consent(store, now, requester, target, scope)
       IN  CASE existing.kind = "multiple" ->
                    Finish(p, Raise("request_consent", "MultipleResultsFound"))
             [] existing.kind = "one" ->
                    Finish(p, already_granted_result(existing.row))
             [] OTHER -> Goto(p, "rc_pending")
    /\ UNCHANGED <<store, next_id, now, sms_provider, email_provider, env, sent>>

\* request_consent, lines 107-119: look for a pending request
RcPending(p) ==
    /\ pc[p] = "rc_pending"
    /\ LET c == call[p]
           pending == get_pending_request(store, c.requester, c.target, c.scope)
       IN  CASE pending.kind = "multiple" ->
                    Finish(p, Raise("request_consent", "MultipleResultsFound"))
             [] pending.kind = "one" ->
                    Finish(p, already_pending_result(pending.row))
             [] OTHER -> Goto(p, "rc_create")
    /\ UNCHANGED <<store, next_id, now, sms_provider, email_provider, env, call, sent>>

\* request_consent, lines 121-131: build the request and save it
RcCreate(p) ==
    /\ pc[p] = "rc_create"
    /\ LET c == call[p]
           expires_at == expires_at_from(now, c.expires_in_days)
           consent_request ==
               ConsentRequest(next_id, c.requester, c.target,
                              c.scope, expires_at, now)
       IN  IF violates_unique(store, consent_request)
           THEN /\ Finish(p, Raise("request_consent", "DuplicateRequestError"))
                /\ store' = create(store, consent_request)
                /\ call' = call
                /\ next_id' = next_id
           ELSE /\ next_id <= MaxRequests
                /\ Goto(p, "rc_send")
                /\ store' = create(store, consent_request)
                /\ call' = [call EXCEPT ![p].saved_id = consent_request.id,
                                        ![p].expires_at = expires_at]
                /\ next_id' = next_id + 1
    /\ UNCHANGED <<now, sms_provider, email_provider, env, sent>>

\* request_consent, lines 121-131, with the display names of the requester
\* and the target carried into the row
RcCreateNamed(p) ==
    /\ pc[p] = "rc_create"
    /\ LET c == call[p]
           expires_at == expires_at_from(now, c.expires_in_days)
           consent_request ==
               entity_to_model(Entity(next_id, c.requester, c.target, c.scope,
                                      PENDING, expires_at, now))
       IN  IF violates_unique(store, consent_request)
           THEN /\ Finish(p, Raise("request_consent", "DuplicateRequestError"))
                /\ store' = create(store, consent_request)
                /\ call' = call
                /\ next_id' = next_id
           ELSE /\ next_id <= MaxRequests
                /\ Goto(p, "rc_send")
                /\ store' = create(store, consent_request)
                /\ call' = [call EXCEPT ![p].saved_id = consent_request.id,
                                        ![p].expires_at = expires_at]
                /\ next_id' = next_id + 1
    /\ UNCHANGED <<now, sms_provider, email_provider, env, sent>>

\* request_consent, lines 133-161: resolve the provider and send
RcSend(p) ==
    /\ pc[p] = "rc_send"
    /\ LET c == call[p]
           provider == get_provider(c.target.contact_type, sms_provider, email_provider)
       IN  IF provider = "ProviderNotConfiguredError"
           THEN /\ Finish(p, Raise("request_consent", "ProviderNotConfiguredError"))
                /\ sent' = sent
           ELSE \E success \in BOOLEAN :
                /\ Finish(p, sent_result(c.saved_id, c.expires_at, success))
                /\ sent' = [sent EXCEPT ![Key(c.requester, c.target, c.scope)] = @ + 1]
    /\ UNCHANGED <<store, next_id, now, sms_provider, email_provider, env, call>>

\* the caller takes the result; the process is free for the next call
Return(p) ==
    /\ pc[p] = "done"
    /\ pc' = [pc EXCEPT ![p] = "idle"]
    /\ call' = [call EXCEPT ![p] = NoCall]
    /\ result' = [result EXCEPT ![p] = NoResult]
    /\ UNCHANGED <<store, next_id, now, sms_provider, email_provider, env, sent>>

\* a check that first expires what is due
CheckConsentExpiring(p, requester, target, scope, elapsed) ==
    /\ pc[p] = "idle"
    /\ now + elapsed <= MaxTime
    /\ now' = now + elapsed
    /\ call' = [call EXCEPT ![p] =
                   [op |-> "check_consent", requester |-> requester,
                    target |-> target, scope |-> scope]]
    /\ store' = expire_old_requests(store, now)
    /\ LET consent == get_active_consent(store', now, requester, target, scope)
       IN  IF consent.kind = "multiple"
           THEN Finish(p, Raise("check_consent", "MultipleResultsFound"))
           ELSE Finish(p, [op |-> "check_consent", outcome |-> "return",
                           value |-> check_consent(consent, now')])
    /\ UNCHANGED <<next_id, sms_provider, email_provider, env, sent>>

\* check_consent: the store filters at its clock reading, is_active() reads
\* the clock again once the row is back
CheckConsent(p, requester, target, scope, elapsed) ==
    /\ pc[p] = "idle"
    /\ now + elapsed <= MaxTime
    /\ now' = now + elapsed
    /\ call' = [call EXCEPT ![p] =
                   [op |-> "check_consent", requester |-> requester,
                    target |-> target, scope |-> scope]]
    /\ LET consent == get_active_consent(store, now, requester, target, scope)
       IN  IF consent.kind = "multiple"
           THEN Finish(p, Raise("check_consent", "MultipleResultsFound"))
           ELSE Finish(p, [op |-> "check_consent", outcome |-> "return",
                           value |-> check_consent(consent, now')])
    /\ UNCHANGED <<store, next_id, sms_provider, email_provider, env, sent>>

\* a grant / deny that refuses a request whose expires_at has passed
RespondConsentUnexpired(p, op, request_id, new_status, message) ==
    /\ pc[p] = "idle"
    /\ call' = [call EXCEPT ![p] = [op |-> op, request_id |-> request_id]]
    /\ LET consent_request == get_by_id(store, request_id)
       IN  IF consent_request.kind = "none"
           THEN /\ Finish(p, action_result(op, FALSE, "none", "Consent request not found"))
                /\ store' = store
           ELSE IF \/ consent_request.row.status # PENDING
                   \/ is_expired(consent_request.row, now)
           THEN /\ Finish(p, action_result(op, FALSE, consent_request.row.status,
                                          "Request already " \o consent_request.row.status))
                /\ store' = store
           ELSE /\ Finish(p, action_result(op, TRUE, new_status, message))
                /\ store' = update_status(store, now, request_id, new_status)
    /\ UNCHANGED <<next_id, now, sms_provider, email_provider, env, sent>>

\* grant_consent / deny_consent: read the request, then update_status
RespondConsent(p, op, request_id, new_status, message) ==
    /\ pc[p] = "idle"
    /\ call' = [call EXCEPT ![p] = [op |-> op, request_id |-> request_id]]
    /\ LET consent_request == get_by_id(store, request_id)
       IN  IF consent_request.kind = "none"
           THEN /\ Finish(p, action_result(op, FALSE, "none", "Consent request not found"))
                /\ store' = store
           ELSE IF consent_request.row.status # PENDING
           THEN /\ Finish(p, action_result(op, FALSE, consent_request.row.status,
                                          "Request already " \o consent_request.row.status))
                /\ store' = store
           ELSE /\ Finish(p, action_result(op, TRUE, new_status, message))
                /\ store' = update_status(store, now, request_id, new_status)
    /\ UNCHANGED <<next_id, now, sms_provider, email_provider, env, sent>>

GrantConsent(p, request_id) ==
    RespondConsent(p, "grant_consent", request_id, GRANTED, "Consent granted")

DenyConsent(p, request_id) ==
    RespondConsent(p, "deny_consent", request_id, REVOKED, "Consent denied")

\* request schema of the request_consent_sms tool
validate_phone(v) == E164_PATTERN(v)

\* an expiry validator that lets zero days through
validate_expiry_from_zero(v) == ~(v < 0) /\ ~(v > 3650)

validate_expiry(v) == ~(v <= 0) /\ ~(v > 3650)

\* _request_consent_sms: the request schema is built first; a
\* ValidationError leaves the handler before the service is called (call_tool
\* turns it into an "Error: ..." text), otherwise request_consent starts
RequestConsentSms(p, requester_phone, target_phone, scope, expires_in_days) ==
    IF /\ validate_phone(requester_phone)
       /\ validate_phone(target_phone)
       /\ validate_expiry(expires_in_days)
    THEN RcActive(p, ContactInfo(PHONE, requester_phone),
                  ContactInfo(PHONE, target_phone), scope, expires_in_days)
    ELSE /\ pc[p] = "idle"
         /\ call' = [call EXCEPT ![p] =
                        [op |-> "request_consent_sms",
                         requester_phone |-> requester_phone,
                         target_phone |-> target_phone, scope |-> scope,
                         expires_in_days |-> expires_in_days]]
         /\ Finish(p, Raise("request_consent_sms", "ValidationError"))
         /\ UNCHANGED <<store, next_id, now, sms_provider, email_provider, env, sent>>

\* the consent link's token is the request id printed as text
token_of(request_id) == ToString(request_id)

\* a token parser that takes anything for an id
UUID_lenient(token) ==
    IF \E id \in Ids : token_of(id) = token
    THEN [ok |-> TRUE, id |-> CHOOSE id \in Ids : token_of(id) = token]
    ELSE [ok |-> TRUE, id |-> NoId]

\* UUID(token): the id, or ValueError
UUID(token) ==
    IF \E id \in Ids : token_of(id) = token
    THEN [ok |-> TRUE, id |-> CHOOSE id \in Ids : token_of(id) = token]
    ELSE [ok |-> FALSE, id |-> NoId]

HTTPException(op, status_code, detail) ==
    [op |-> op, outcome |-> "raise", status_code |-> status_code,
     detail |-> detail]

HTMLResponse(op, page) ==
    [op |-> op, outcome |-> "return", status_code |-> 200, page |-> page]

\* GET /v1/consent/{token}
show_consent_page(p, token) ==
    /\ pc[p] = "idle"
    /\ call' = [call EXCEPT ![p] = [op |-> "show_consent_page", token |-> token]]
    /\ LET request_id == UUID(token)
           consent_request == get_by_id(store, request_id.id)
       IN  IF ~request_id.ok
           THEN Finish(p, HTTPException("show_consent_page", 400, "Invalid consent token"))
           ELSE IF consent_request.kind = "none"
           THEN Finish(p, HTTPException("show_consent_page", 404, "Consent request not found"))
           ELSE IF consent_request.row.status # PENDING
           THEN Finish(p, HTMLResponse("show_consent_page", "already_responded"))
           ELSE Finish(p, HTMLResponse("show_consent_page", "consent_page"))
    /\ UNCHANGED <<store, next_id, now, sms_provider, email_provider, env, sent>>

\* POST /v1/consent/{token}/grant and /deny: parse the token, call the
\* service, turn its ConsentActionResult into a page or an HTTP error
respond_page(p, op, token, new_status) ==
    /\ pc[p] = "idle"
    /\ call' = [call EXCEPT ![p] = [op |-> op, token |-> token]]
    /\ LET request_id == UUID(token)
           consent_request == get_by_id(store, request_id.id)
       IN  IF ~request_id.ok
           THEN /\ Finish(p, HTTPException(op, 400, "Invalid consent token"))
                /\ store' = store
           ELSE IF consent_request.kind = "none"
           THEN /\ Finish(p, HTTPException(op, 404, "Consent request not found"))
                /\ store' = store
           ELSE IF consent_request.row.status # PENDING
           THEN /\ Finish(p, HTMLResponse(op, "already_responded"))
                /\ store' = store
           ELSE /\ Finish(p, HTMLResponse(op, "thank_you"))
                /\ store' = update_status(store, now, request_id.id, new_status)
    /\ UNCHANGED <<next_id, now, sms_provider, email_provider, env, sent>>

grant_consent(p, token) == respond_page(p, "grant_consent_page", token, GRANTED)

deny_consent(p, token) == respond_page(p, "deny_consent_page", token, REVOKED)

\* Python None for an optional status / contact
NoStatus == "<None>"
NoContact == [contact_type |-> "<None>", contact_value |-> "<None>"]

\* a target query that drops its status filter
find_by_target_any_status(st, target, status) ==
    {row \in st :
        /\ row.target_contact_type = target.contact_type
        /\ row.target_contact_value = target.contact_value}

find_by_target(st, target, status) ==
    {row \in st :
        /\ row.target_contact_type = target.contact_type
        /\ row.target_contact_value = target.contact_value
        /\ status # NoStatus => row.status = status}

find_by_requester(st, requester, status) ==
    {row \in st :
        /\ row.requester_contact_type = requester.contact_type
        /\ row.requester_contact_value = requester.contact_value
        /\ status # NoStatus => row.status = status}

\* one entry of the list list_requests returns
summary(r) ==
    [id |-> r.id,
     requester |-> [type |-> r.requester_contact_type,
                    value |-> r.requester_contact_value],
     target |-> [type |-> r.target_contact_type,
                 value |-> r.target_contact_value],
     scope |-> r.scope,
     status |-> r.status,
     expires_at |-> r.expires_at,
     created_at |-> r.created_at]

\* list_requests: by target, else by requester, else nothing
ListRequests(p, target, requester, status) ==
    /\ pc[p] = "idle"
    /\ call' = [call EXCEPT ![p] =
                   [op |-> "list_requests", target |-> target,
                    requester |-> requester, status |-> status]]
    /\ LET requests ==
               IF target # NoContact THEN find_by_target(store, target, status)
               ELSE IF requester # NoContact
                    THEN find_by_requester(store, requester, status)
                    ELSE {}
       IN  Finish(p, [op |-> "list_requests", outcome |-> "return",
                      requests |-> {summary(r) : r \in requests}])
    /\ UNCHANGED <<store, next_id, now, sms_provider, email_provider, env, sent>>

\* a response compared as typed, without upper()
upper_as_typed(response) == response

\* str.upper() over the responses of the model
upper(response) ==
    CASE response = "yes" -> "YES"
      [] response = "no" -> "NO"
      [] response = "revoke" -> "REVOKE"
      [] OTHER -> response

Responses == {"yes", "NO", "REVOKE", "MAYBE"}

simulate_result(success, new_status, message) ==
    [op |-> "simulate_response", outcome |-> "return", success |-> success,
     new_status |-> new_status, message |-> message]

\* simulate_response: the first PENDING request of the requester value to the
\* target is granted or revoked; the query has no ORDER BY
SimulateResponse(p, target, requester_contact_value, response) ==
    /\ pc[p] = "idle"
    /\ call' = [call EXCEPT ![p] =
                   [op |-> "simulate_response", target |-> target,
                    requester_contact_value |-> requester_contact_value,
                    response |-> response]]
    /\ IF ~validate_contact_value(target.contact_type, requester_contact_value)
       THEN /\ Finish(p, Raise("simulate_response", "ValueError"))
            /\ store' = store
       ELSE LET requests == find_by_target(store, target, NoStatus)
                matching == {r \in requests :
                                /\ r.requester_contact_value = requester_contact_value
                                /\ r.status = PENDING}
            IN  IF matching = {}
                THEN /\ Finish(p, simulate_result(FALSE, "none", "No pending request found"))
                     /\ store' = store
                ELSE \E request \in matching :
                     CASE upper(response) = "YES" ->
                              /\ store' = update_status(store, now, request.id, GRANTED)
                              /\ Finish(p, simulate_result(TRUE, "granted", "Consent granted"))
                       [] upper(response) \in {"NO", "REVOKE"} ->
                              /\ store' = update_status(store, now, request.id, REVOKED)
                              /\ Finish(p, simulate_result(TRUE, "revoked", "Consent revoked"))
                       [] OTHER ->
                              /\ store' = store
                              /\ Finish(p, simulate_result(FALSE, "none",
                                     "Invalid response: " \o response
                                         \o ". Use YES, NO, or REVOKE."))
    /\ UNCHANGED <<next_id, now, sms_provider, email_provider, env, sent>>

\* grant_consent / deny_consent up to their second await: the record is read
\* and its status tested
RespondRead(p, op, request_id, new_status, message) ==
    /\ pc[p] = "idle"
    /\ call' = [call EXCEPT ![p] =
                   [op |-> op, request_id |-> request_id,
                    new_status |-> new_status, message |-> message]]
    /\ LET consent_request == get_by_id(store, request_id)
       IN  IF consent_request.kind = "none"
           THEN Finish(p, action_result(op, FALSE, "none", "Consent request not found"))
           ELSE IF consent_request.row.status # PENDING
           THEN Finish(p, action_result(op, FALSE, consent_request.row.status,
                                        "Request already " \o consent_request.row.status))
           ELSE Goto(p, "respond_update")
    /\ UNCHANGED <<store, next_id, now, sms_provider, email_provider, env, sent>>

\* grant_consent / deny_consent from their second await: update_status
RespondUpdate(p) ==
    /\ pc[p] = "respond_update"
    /\ store' = update_status(store, now, call[p].request_id, call[p].new_status)
    /\ IF get_by_id(store', call[p].request_id).kind = "none"
       THEN Finish(p, Raise(call[p].op, "RequestNotFoundError"))
       ELSE Finish(p, action_result(call[p].op, TRUE, call[p].new_status,
                                    call[p].message))
    /\ UNCHANGED <<next_id, now, sms_provider, email_provider, env, call, sent>>

GrantRead(p, request_id) ==
    RespondRead(p, "grant_consent", request_id, GRANTED, "Consent granted")

DenyRead(p, request_id) ==
    RespondRead(p, "deny_consent", request_id, REVOKED, "Consent denied")

\* simulate_response up to its second await: find_by_target, the filter on
\* requester value and PENDING, the choice of the first match
SimulateRead(p, target, requester_contact_value, response) ==
    /\ pc[p] = "idle"
    /\ IF ~validate_contact_value(target.contact_type, requester_contact_value)
       THEN /\ call' = [call EXCEPT ![p] =
                           [op |-> "simulate_response", request_id |-> NoId]]
            /\ Finish(p, Raise("simulate_response", "ValueError"))
       ELSE LET requests == find_by_target(store, target, NoStatus)
                matching == {r \in requests :
                                /\ r.requester_contact_value = requester_contact_value
                                /\ r.status = PENDING}
            IN  IF matching = {}
                THEN /\ call' = [call EXCEPT ![p] =
                                    [op |-> "simulate_response", request_id |-> NoId]]
                     /\ Finish(p, simulate_result(FALSE, "none", "No pending request found"))
                ELSE \E request \in matching :
                     CASE upper(response) = "YES" ->
                              /\ call' = [call EXCEPT ![p] =
                                    [op |-> "simulate_response", request_id |-> request.id,
                                     new_status |-> GRANTED, message |-> "Consent granted"]]
                              /\ Goto(p, "simulate_update")
                       [] upper(response) \in {"NO", "REVOKE"} ->
                              /\ call' = [call EXCEPT ![p] =
                                    [op |-> "simulate_response", request_id |-> request.id,
                                     new_status |-> REVOKED, message |-> "Consent revoked"]]
                              /\ Goto(p, "simulate_update")
                       [] OTHER ->
                              /\ call' = [call EXCEPT ![p] =
                                    [op |-> "simulate_response", request_id |-> NoId]]
                              /\ Finish(p, simulate_result(FALSE, "none",
                                     "Invalid response: " \o response
                                         \o ". Use YES, NO, or REVOKE."))
    /\ UNCHANGED <<store, next_id, now, sms_provider, email_provider, env, sent>>

\* simulate_response from its second await: update_status
SimulateUpdate(p) ==
    /\ pc[p] = "simulate_update"
    /\ store' = update_status(store, now, call[p].request_id, call[p].new_status)
    /\ IF get_by_id(store', call[p].request_id).kind = "none"
       THEN Finish(p, Raise("simulate_response", "RequestNotFoundError"))
       ELSE Finish(p, simulate_result(TRUE, call[p].new_status, call[p].message))
    /\ UNCHANGED <<next_id, now, sms_provider, email_provider, env, call, sent>>

\* get_request_by_id: the repository's get_by_id, passed through
GetRequestById(p, request_id) ==
    /\ pc[p] = "idle"
    /\ call' = [call EXCEPT ![p] =
                   [op |-> "get_request_by_id", request_id |-> request_id]]
    /\ LET model == get_by_id(store, request_id)
       IN  IF model.kind = "none"
           THEN Finish(p, [op |-> "get_request_by_id", outcome |-> "return",
                           found |-> FALSE, status |-> NoStatus])
           ELSE Finish(p, [op |-> "get_request_by_id", outcome |-> "return",
                           found |-> TRUE, status |-> model.row.status])
    /\ UNCHANGED <<store, next_id, now, sms_provider, email_provider, env, sent>>

\* list_tools: the four public tools, and the admin tool in the test
\* environment only
list_tools(p) ==
    /\ pc[p] = "idle"
    /\ call' = [call EXCEPT ![p] = [op |-> "list_tools"]]
    /\ LET tools == {"request_consent_sms", "request_consent_email",
                     "check_consent_sms", "check_consent_email"}
       IN  Finish(p, [op |-> "list_tools", outcome |-> "return",
                      tools |-> IF is_test_env(env)
                                THEN tools \cup {"admin_simulate_response"}
                                ELSE tools])
    /\ UNCHANGED <<store, next_id, now, sms_provider, email_provider, env, sent>>

\* AdminSimulateV1Request: contact type and response validators
validate_contact_type(v) == v \in {"phone", "email"}
validate_response(v) == upper(v) \in {"YES", "NO", "REVOKE"}

\* _admin_simulate_response: PermissionError outside the test environment,
\* then the request schema, then the target ContactInfo, then the service
admin_simulate_response(p, target_contact_type, target_contact_value, requester_contact_value, response) ==
    IF /\ is_test_env(env)
       /\ validate_contact_type(target_contact_type)
       /\ validate_response(response)
       /\ validate_contact_value(target_contact_type, target_contact_value)
    THEN SimulateResponse(p, ContactInfo(target_contact_type, target_contact_value),
                          requester_contact_value, upper(response))
    ELSE /\ pc[p] = "idle"
         /\ call' = [call EXCEPT ![p] =
                        [op |-> "admin_simulate_response",
                         target_contact_type |-> target_contact_type,
                         target_contact_value |-> target_contact_value,
                         requester_contact_value |-> requester_contact_value,
                         response |-> response]]
         /\ Finish(p, Raise("admin_simulate_response",
                            IF ~is_test_env(env) THEN "PermissionError"
                            ELSE IF /\ validate_contact_type(target_contact_type)
                                    /\ validate_response(response)
                                 THEN "ValueError" ELSE "ValidationError"))
         /\ UNCHANGED <<store, next_id, now, sms_provider, email_provider, env, sent>>

\* expire_old_requests, line 193: the call reads the clock
ExpireOldRequests(p) ==
    /\ pc[p] = "idle"
    /\ call' = [call EXCEPT ![p] = [op |-> "expire_old_requests", now |-> now]]
    /\ Goto(p, "expire_update")
    /\ UNCHANGED <<store, next_id, now, sms_provider, email_provider, env, sent>>

\* expire_old_requests, lines 194-212: the UPDATE runs and reports its rowcount
ExpireUpdate(p) ==
    /\ pc[p] = "expire_update"
    /\ store' = expire_old_requests(store, call[p].now)
    /\ Finish(p, [op |-> "expire_old_requests", outcome |-> "return",
                  count |-> Cardinality(expire_matches(store, call[p].now))])
    /\ UNCHANGED <<next_id, now, sms_provider, email_provider, env, call, sent>>

\* PostgresConsentRepository.create called with a freshly built entity
RepoCreate(p, requester, target, scope, expires_in_days) ==
    /\ pc[p] = "idle"
    /\ LET request == ConsentRequest(next_id, requester, target, scope,
                                     expires_at_from(now, expires_in_days), now)
       IN  /\ call' = [call EXCEPT ![p] =
                          [op |-> "create", requester |-> requester,
                           target |-> target, scope |-> scope]]
           /\ store' = create(store, request)
           /\ IF violates_unique(store, request)
              THEN /\ Finish(p, Raise("create", "DuplicateRequestError"))
                   /\ next_id' = next_id
              ELSE /\ next_id <= MaxRequests
                   /\ Finish(p, [op |-> "create", outcome |-> "return",
                                 id |-> request.id])
                   /\ next_id' = next_id + 1
    /\ UNCHANGED <<now, sms_provider, email_provider, env, sent>>

\* PostgresConsentRepository.update_status called directly
RepoUpdateStatus(p, request_id, status) ==
    /\ pc[p] = "idle"
    /\ call' = [call EXCEPT ![p] =
                   [op |-> "update_status", request_id |-> request_id,
                    status |-> status]]
    /\ store' = update_status(store, now, request_id, status)
    /\ LET model == get_by_id(store', request_id)
       IN  IF model.kind = "none"
           THEN Finish(p, Raise("update_status", "RequestNotFoundError"))
           ELSE Finish(p, [op |-> "update_status", outcome |-> "return",
                           id |-> model.row.id])
    /\ UNCHANGED <<next_id, now, sms_provider, email_provider, env, sent>>

\* repository.create with an entity the caller built (any status, any
\* expiry around the clock), to be fetched again by its id
RoundTripCreate(p, requester, target, scope, status, offset) ==
    /\ pc[p] = "idle"
    /\ LET entity == Entity(next_id, requester, target, scope, status,
                            now + offset, now)
           model == entity_to_model(entity)
       IN  /\ call' = [call EXCEPT ![p] = [op |-> "round_trip", entity |-> entity]]
           /\ store' = create(store, model)
           /\ IF violates_unique(store, model)
              THEN /\ Finish(p, Raise("create", "DuplicateRequestError"))
                   /\ next_id' = next_id
              ELSE /\ next_id <= MaxRequests
                   /\ Goto(p, "get_by_id")
                   /\ next_id' = next_id + 1
    /\ UNCHANGED <<now, sms_provider, email_provider, env, sent>>

\* repository.get_by_id with the id of the entity just created
RoundTripGet(p) ==
    /\ pc[p] = "get_by_id"
    /\ LET model == get_by_id(store, call[p].entity.id)
       IN  IF model.kind = "none"
           THEN Finish(p, [op |-> "get_by_id", outcome |-> "return",
                           found |-> FALSE])
           ELSE Finish(p, [op |-> "get_by_id", outcome |-> "return",
                           found |-> TRUE, entity |-> model_to_entity(model.row)])
    /\ UNCHANGED <<store, next_id, now, sms_provider, email_provider, env, call, sent>>

\* entity.is_active() on the entity with this id
IsActive(p, request_id) ==
    /\ pc[p] = "idle"
    /\ LET model == get_by_id(store, request_id)
       IN  /\ model.kind = "one"
           /\ call' = [call EXCEPT ![p] =
                          [op |-> "is_active", request_id |-> request_id]]
           /\ Finish(p, [op |-> "is_active", outcome |-> "return",
                         value |-> is_active(model_to_entity(model.row), now)])
    /\ UNCHANGED <<store, next_id, now, sms_provider, email_provider, env, sent>>

\* entity.is_expired() on the entity with this id
IsExpired(p, request_id) ==
    /\ pc[p] = "idle"
    /\ LET model == get_by_id(store, request_id)
       IN  /\ model.kind = "one"
           /\ call' = [call EXCEPT ![p] =
                          [op |-> "is_expired", request_id |-> request_id]]
           /\ Finish(p, [op |-> "is_expired", outcome |-> "return",
                         value |-> is_expired(model_to_entity(model.row), now)])
    /\ UNCHANGED <<store, next_id, now, sms_provider, email_provider, env, sent>>

(* --------------------------- specifications ---------------------------- *)
\* One caller at a time: every operation of the service and the sweep, with
\* requests to the phone target only; the email target is never asked.
SeqProcs == {"p1"}
SeqTargets == {sample_phone_target}

Next ==
    \/ Tick
    \/ \E p \in SeqProcs, r \in Requesters, t \in SeqTargets, s \in Scopes, d \in Days :
           RcActive(p, r, t, s, d)
    \/ \E p \in SeqProcs : RcPending(p)
    \/ \E p \in SeqProcs : RcCreate(p)
    \/ \E p \in SeqProcs : RcSend(p)
    \/ \E p \in SeqProcs, r \in Requesters, t \in Targets, s \in OptScopes, e \in {0, 1} :
           CheckConsent(p, r, t, s, e)
    \/ \E p \in SeqProcs, id \in Ids : GrantConsent(p, id)
    \/ \E p \in SeqProcs, id \in Ids : DenyConsent(p, id)
    \/ \E p \in SeqProcs, t \in Targets, r \in Requesters, a \in Responses :
           SimulateResponse(p, t, r.contact_value, a)
    \/ \E p \in SeqProcs : ExpireOldRequests(p)
    \/ \E p \in SeqProcs : ExpireUpdate(p)
    \/ \E p \in SeqProcs : Return(p)

\* requests go to the phone target only: the email provider is never consulted
InitSeq == Init /\ email_provider = "configured" /\ env = "test"

Spec == InitSeq /\ [][Next]_vars

\* Two callers whose request_consent calls interleave at every awaited
\* store / provider call, for one scope, one expiry and both targets.
RaceScopes == {"wellness_check"}
RaceDays == {1}

NextRace ==
    \/ \E p \in Procs, r \in Requesters, t \in Targets, s \in RaceScopes, d \in RaceDays :
           RcActive(p, r, t, s, d)
    \/ \E p \in Procs : RcPending(p)
    \/ \E p \in Procs : RcCreate(p)
    \/ \E p \in Procs : RcSend(p)
    \/ \E p \in Procs, id \in Ids : GrantConsent(p, id)
    \/ \E p \in Procs, id \in Ids : DenyConsent(p, id)
    \/ \E p \in Procs : Return(p)

InitRace == Init /\ sms_provider = "configured" /\ env = "test"

SpecRace == InitRace /\ [][NextRace]_vars

\* The repository on its own: one caller of create and update_status, and
\* two callers whose expire_old_requests sweeps overlap with them and with
\* each other while the clock advances.  Every request is created with the
\* same lifetime; the creation times make the expiry times differ.
RepoDays == {1}

NextRepo ==
    \/ Tick
    \/ \E p \in SeqProcs, r \in Requesters, t \in SeqTargets, s \in Scopes, d \in RepoDays :
           RepoCreate(p, r, t, s, d)
    \/ \E p \in SeqProcs, id \in Ids, status \in ConsentStatus :
           RepoUpdateStatus(p, id, status)
    \/ \E p \in Procs : ExpireOldRequests(p)
    \/ \E p \in Procs : ExpireUpdate(p)
    \/ \E p \in Procs : Return(p)

InitRepo ==
    Init /\ sms_provider = "configured" /\ email_provider = "configured" /\ env = "test"

SpecRepo == InitRepo /\ [][NextRepo]_vars

\* Listing: one caller creates requests between two requesters and two
\* targets, moves them through the statuses and lists them.
ListRequesters == {sample_phone_requester, sample_email_requester}

NextList ==
    \/ \E p \in SeqProcs, r \in ListRequesters, t \in Targets, s \in RaceScopes, d \in RepoDays :
           RepoCreate(p, r, t, s, d)
    \/ \E p \in SeqProcs, id \in Ids, status \in ConsentStatus :
           RepoUpdateStatus(p, id, status)
    \/ \E p \in SeqProcs, t \in Targets \cup {NoContact},
            r \in ListRequesters \cup {NoContact},
            status \in ConsentStatus \cup {NoStatus} :
           ListRequests(p, t, r, status)
    \/ \E p \in SeqProcs : Return(p)

SpecList == InitRepo /\ [][NextList]_vars

\* Entities: one caller persists entities of every status, with and without
\* display names and with expiries before, at and after the clock, fetches
\* them again and asks them whether they are active or expired.
RequesterNames == {NoName, "Alice"}
TargetNames == {NoName, "Bob"}
Offsets == {-1, 0, 1}

NextEntity ==
    \/ Tick
    \/ \E p \in SeqProcs, rn \in RequesterNames, tn \in TargetNames,
            s \in RaceScopes, status \in ConsentStatus, offset \in Offsets :
           RoundTripCreate(p, NamedContactInfo(sample_phone_requester, rn),
                           NamedContactInfo(sample_phone_target, tn),
                           s, status, offset)
    \/ \E p \in SeqProcs : RoundTripGet(p)
    \/ \E p \in SeqProcs, id \in Ids : IsActive(p, id)
    \/ \E p \in SeqProcs, id \in Ids : IsExpired(p, id)
    \/ \E p \in SeqProcs : Return(p)

SpecEntity == InitRepo /\ [][NextEntity]_vars

\* Tool boundary and consent links: one caller uses the request_consent_sms
\* tool with well-formed and malformed arguments, two browsers follow
\* consent links with tokens that are ids of records, ids of no record, or
\* no ids at all.
ToolPhones == {"+15551234567", "+15559876543", "15551234567"}
ToolDays == {0, 1, 3650, 3651}
Tokens == {token_of(id) : id \in Ids} \cup {"not-a-uuid"}

NextWeb ==
    \/ \E p \in SeqProcs, rp \in ToolPhones \ {sample_phone_target.contact_value},
            tp \in ToolPhones \ {sample_phone_requester.contact_value},
            s \in Scopes, d \in ToolDays :
           RequestConsentSms(p, rp, tp, s, d)
    \/ \E p \in SeqProcs : RcPending(p)
    \/ \E p \in SeqProcs : RcCreate(p)
    \/ \E p \in SeqProcs : RcSend(p)
    \/ \E p \in SeqProcs, token \in Tokens : show_consent_page(p, token)
    \/ \E p \in Procs, token \in Tokens : grant_consent(p, token)
    \/ \E p \in Procs, token \in Tokens : deny_consent(p, token)
    \/ \E p \in Procs : Return(p)

SpecWeb == InitRepo /\ [][NextWeb]_vars

\* Admin tool: the server runs in any of the three environments; one caller
\* requests consent over the SMS tool, lists the tools and calls the admin
\* tool.
InitAdmin == Init /\ sms_provider = "configured" /\ email_provider = "configured"
AdminTypes == {PHONE, "fax"}
AdminDays == {1}

NextAdmin ==
    \/ \E p \in SeqProcs, s \in Scopes, d \in AdminDays :
           RequestConsentSms(p, sample_phone_requester.contact_value,
                             sample_phone_target.contact_value, s, d)
    \/ \E p \in SeqProcs : RcPending(p)
    \/ \E p \in SeqProcs : RcCreate(p)
    \/ \E p \in SeqProcs : RcSend(p)
    \/ \E p \in Procs : list_tools(p)
    \/ \E p \in Procs, type \in AdminTypes, response \in Responses :
           admin_simulate_response(p, type, sample_phone_target.contact_value,
                                   sample_phone_requester.contact_value, response)
    \/ \E p \in Procs : Return(p)

SpecAdmin == InitAdmin /\ [][NextAdmin]_vars

\* Answers in parallel: one record, two callers that grant, deny, simulate
\* and sweep, interleaved between the store calls of each operation.
AnswerResponses == {"yes", "NO"}

NextAnswer ==
    \/ Tick
    \/ \E p \in SeqProcs, s \in RaceScopes, d \in RepoDays :
           RepoCreate(p, sample_phone_requester, sample_phone_target, s, d)
    \/ \E p \in Procs, id \in Ids : GrantRead(p, id)
    \/ \E p \in Procs, id \in Ids : DenyRead(p, id)
    \/ \E p \in Procs : RespondUpdate(p)
    \/ \E p \in Procs, response \in AnswerResponses :
           SimulateRead(p, sample_phone_target,
                        sample_phone_requester.contact_value, response)
    \/ \E p \in Procs : SimulateUpdate(p)
    \/ \E p \in Procs : ExpireOldRequests(p)
    \/ \E p \in Procs : ExpireUpdate(p)
    \/ \E p \in Procs : Return(p)

SpecAnswer == InitRepo /\ [][NextAnswer]_vars

\* Readers: one caller fills the store and sets statuses, a second one only
\* reads, with check_consent, list_requests and get_request_by_id, while the
\* clock passes the records' expiry.
ReadProcs == {"p2"}

NextRead ==
    \/ Tick
    \/ \E p \in SeqProcs, t \in Targets, s \in RaceScopes, d \in RepoDays :
           RepoCreate(p, sample_phone_requester, t, s, d)
    \/ \E p \in SeqProcs, id \in Ids, status \in {GRANTED, REVOKED} :
           RepoUpdateStatus(p, id, status)
    \/ \E p \in ReadProcs, r \in Requesters, t \in Targets, s \in OptScopes, e \in {0, 1} :
           CheckConsent(p, r, t, s, e)
    \/ \E p \in ReadProcs, t \in Targets \cup {NoContact},
            status \in {PENDING, NoStatus} :
           ListRequests(p, t, sample_phone_requester, status)
    \/ \E p \in ReadProcs, id \in Ids : GetRequestById(p, id)
    \/ \E p \in Procs : Return(p)

SpecRead == InitRepo /\ [][NextRead]_vars

\* Display names: one caller requests, checks, grants and denies for one
\* pair of contacts under changing display names.
NextNames ==
    \/ \E p \in SeqProcs, rn \in RequesterNames, tn \in TargetNames,
            s \in Scopes, d \in RaceDays :
           RcActive(p, NamedContactInfo(sample_phone_requester, rn),
                    NamedContactInfo(sample_phone_target, tn), s, d)
    \/ \E p \in SeqProcs : RcPending(p)
    \/ \E p \in SeqProcs : RcCreateNamed(p)
    \/ \E p \in SeqProcs : RcSend(p)
    \/ \E p \in SeqProcs, rn \in RequesterNames, tn \in TargetNames, s \in OptScopes :
           CheckConsent(p, NamedContactInfo(sample_phone_requester, rn),
                        NamedContactInfo(sample_phone_target, tn), s, 0)
    \/ \E p \in SeqProcs, id \in Ids : GrantConsent(p, id)
    \/ \E p \in SeqProcs, id \in Ids : DenyConsent(p, id)
    \/ \E p \in SeqProcs : Return(p)

SpecNames == InitRepo /\ [][NextNames]_vars

(* ------------------------------ properties ----------------------------- *)
\* the rows between a requester and a target, whatever their scope
PairRows(st, requester, target) ==
    {row \in st :
        /\ row.requester_contact_type = requester.contact_type
        /\ row.requester_contact_value = requester.contact_value
        /\ row.target_contact_type = target.contact_type
        /\ row.target_contact_value = target.contact_value}

\* the rows of the pair that are GRANTED and expire strictly after t
ActiveRows(st, t, requester, target) ==
    {row \in PairRows(st, requester, target) :
        row.status = GRANTED /\ row.expires_at > t}

\* process p completes a check_consent call in this step
CheckStep(p) ==
    pc[p] = "idle" /\ pc'[p] = "done" /\ result'[p].op = "check_consent"

C2_FailsClosed ==
    [][\A p \in Procs :
          (CheckStep(p)
           /\ ActiveRows(store, now, call'[p].requester, call'[p].target) = {})
          => (result'[p].outcome = "return" /\ ~result'[p].value)]_vars

\* a check on a pair no request was ever created for has answered false
C2_Witness ==
    \E p \in Procs :
        /\ pc[p] = "done" /\ result[p].op = "check_consent"
        /\ result[p].outcome = "return" /\ ~result[p].value
        /\ PairRows(store, call[p].requester, call[p].target) = {}
        /\ store # {}

\* C3: with the scope omitted, check_consent returns true whenever at least
\* one GRANTED row of the pair is unexpired when the call answers, for one,
\* two or more granted scopes.
C3_AnyScopeReturnsTrue ==
    [][\A p \in Procs :
          (CheckStep(p) /\ call'[p].scope = NoScope
           /\ ActiveRows(store, now', call'[p].requester, call'[p].target) # {})
          => (result'[p].outcome = "return" /\ result'[p].value)]_vars

\* the rows stored for one tuple (requester, target, scope)
KeyRows(st, k) == {row \in st : RowKey(row) = k}

\* the tuple a request_consent call is about
CallKey(c) == Key(c.requester, c.target, c.scope)

\* process p holds the answer of a request_consent call that returned
Returned(p) ==
    /\ pc[p] = "done" /\ result[p].op = "request_consent"
    /\ result[p].outcome = "return"

\* process p holds an exception raised by request_consent
Raised(p, error) ==
    /\ pc[p] = "done" /\ result[p].op = "request_consent"
    /\ result[p].outcome = "raise" /\ result[p].error = error

\* C4: in every reachable state the store holds at most one row for each
\* tuple (requester type, requester value, target type, target value, scope),
\* whatever the rows' statuses.
C4_OneRowPerTuple ==
    \A r1 \in store : \A r2 \in store : RowKey(r1) = RowKey(r2) => r1 = r2

\* an insert for a tuple that already has a row has been rejected, and the
\* store holds rows again
C4_Witness ==
    \E p \in Procs : Raised(p, "DuplicateRequestError") /\ store # {}

\* C5: the call that creates a request returns "pending" with the id of the
\* tuple's single row after invoking the provider once; a later call for the
\* same requester, target and scope made while that row is PENDING returns
\* "pending" with the same id, leaves the tuple with exactly that one row and
\* invokes no provider.
C5_SecondCallReturnsSameRequest ==
    [][\A p \in Procs :
          /\ (pc[p] = "rc_send" /\ pc'[p] = "done" /\ result'[p].outcome = "return")
             => /\ result'[p].status = "pending"
                /\ sent' = [sent EXCEPT ![CallKey(call[p])] = @ + 1]
                /\ \E row \in store' :
                       /\ KeyRows(store', CallKey(call[p])) = {row}
                       /\ row.id = result'[p].request_id
                       /\ row.status = PENDING
          /\ (pc[p] = "rc_pending" /\ pc'[p] # "rc_pending")
             => \A row \in KeyRows(store, CallKey(call[p])) :
                    row.status = PENDING
                    => /\ pc'[p] = "done"
                       /\ result'[p].outcome = "return"
                       /\ result'[p].status = "pending"
                       /\ result'[p].request_id = row.id
                       /\ KeyRows(store', CallKey(call[p])) = {row}
                       /\ store' = store
                       /\ sent' = sent
          /\ (pc[p] = "rc_pending" /\ pc'[p] = "done" /\ result'[p].outcome = "return")
             => \E row \in KeyRows(store, CallKey(call[p])) :
                    row.status = PENDING /\ row.id = result'[p].request_id]_vars

\* the second call has returned the PENDING row's id; one send in total
C5_Witness ==
    \E p \in Procs :
        /\ Returned(p) /\ result[p].message = "Consent request already pending"
        /\ sent[CallKey(call[p])] = 1
        /\ \E row \in KeyRows(store, CallKey(call[p])) :
               row.id = result[p].request_id /\ row.status = PENDING

C7_RaceLeavesOneRow ==
    \A p \in Procs : \A q \in Procs :
        (/\ p # q
         /\ pc[p] \in {"rc_send", "done"} /\ call[p].op = "request_consent"
         /\ call[p].saved_id # NoId
         /\ Raised(q, "DuplicateRequestError")
         /\ CallKey(call[p]) = CallKey(call[q]))
        => Cardinality(KeyRows(store, CallKey(call[p]))) = 1

\* C8: DuplicateRequestError raised by the store's create is never
\* propagated to the caller of request_consent.
C8_DuplicateNeverPropagates ==
    \A p \in Procs : ~Raised(p, "DuplicateRequestError")

C10_DeliveryFailureKeepsRequest ==
    [][\A p \in Procs :
          (pc[p] = "rc_send" /\ pc'[p] = "done"
           /\ result'[p].outcome = "return" /\ result'[p].delivery = "failure")
          => /\ result'[p].status = "pending"
             /\ sent' = [sent EXCEPT ![CallKey(call[p])] = @ + 1]
             /\ result'[p].request_id = call[p].saved_id
             /\ store' = store
             /\ \E row \in store' :
                    row.id = call[p].saved_id /\ row.status = PENDING]_vars

\* a call whose delivery failed has returned and its row is PENDING
C10_Witness ==
    \E p \in Procs :
        /\ Returned(p) /\ result[p].delivery = "failure"
        /\ \E row \in store : row.id = result[p].request_id /\ row.status = PENDING

\* C11: when no provider is registered for the target's contact type, or the
\* registered one reports not configured, request_consent fails with
\* ProviderNotConfiguredError; the row it created stays in the store with
\* status PENDING, no send is invoked and no result is returned.
C11_ProviderNotConfigured ==
    [][\A p \in Procs :
          (/\ pc[p] = "rc_send" /\ pc'[p] # "rc_send"
           /\ (IF call[p].target.contact_type = PHONE
                   THEN sms_provider ELSE email_provider) # "configured")
          => /\ pc'[p] = "done"
             /\ result'[p].outcome = "raise"
             /\ result'[p].error = "ProviderNotConfiguredError"
             /\ sent' = sent
             /\ store' = store
             /\ \E row \in KeyRows(store', CallKey(call[p])) :
                    row.id = call[p].saved_id /\ row.status = PENDING]_vars

\* a request to a target whose provider is registered but not configured has
\* failed, leaving its PENDING row and no send
C11_Witness ==
    \E p \in Procs :
        /\ Raised(p, "ProviderNotConfiguredError")
        /\ sms_provider = "unconfigured"
        /\ sent[CallKey(call[p])] = 0
        /\ \E row \in KeyRows(store, CallKey(call[p])) :
               row.id = call[p].saved_id /\ row.status = PENDING

\* process p runs a grant_consent or deny_consent call in this step
RespondStep(p) ==
    pc[p] = "idle" /\ call'[p].op \in {"grant_consent", "deny_consent"}

\* the status a grant_consent / deny_consent call moves a PENDING row to
RespondTarget(op) == IF op = "grant_consent" THEN GRANTED ELSE REVOKED

\* C12: grant_consent(id) on a PENDING row sets it to GRANTED and returns
\* success with new_status GRANTED; deny_consent(id) on a PENDING row sets it
\* to REVOKED and returns success with new_status REVOKED; in both cases
\* responded_at and updated_at are stamped with the time of the call and no
\* other row changes.
C12_RespondOnPending ==
    [][\A p \in Procs :
          RespondStep(p)
          => \A row \in store :
                 (row.id = call'[p].request_id /\ row.status = PENDING)
                 => /\ result'[p].outcome = "return"
                    /\ result'[p].success
                    /\ result'[p].new_status = RespondTarget(call'[p].op)
                    /\ store' = (store \ {row}) \cup
                           {[row EXCEPT !.status = RespondTarget(call'[p].op),
                                        !.updated_at = now,
                                        !.responded_at = now]}]_vars

\* a grant has succeeded on one of two stored rows, at a time later than the
\* row's creation
C12_Witness ==
    \E p \in Procs :
        /\ pc[p] = "done" /\ result[p].op = "grant_consent" /\ result[p].success
        /\ Cardinality(store) = 2
        /\ \E row \in store :
               /\ row.id = call[p].request_id /\ row.status = GRANTED
               /\ row.responded_at = now /\ row.created_at < now

\* C13: grant_consent and deny_consent on a row that is not PENDING return
\* success = false with new_status equal to the row's status and leave the
\* store unchanged; on an id that is not in the store they return
\* success = false with new_status none and the message "Consent request not
\* found", and the store is unchanged.
C13_RespondRejected ==
    [][\A p \in Procs :
          RespondStep(p)
          => /\ \A row \in store :
                    (row.id = call'[p].request_id /\ row.status # PENDING)
                    => /\ result'[p].outcome = "return"
                       /\ ~result'[p].success
                       /\ result'[p].new_status = row.status
                       /\ store' = store
             /\ (\A row \in store : row.id # call'[p].request_id)
                    => /\ result'[p].outcome = "return"
                       /\ ~result'[p].success
                       /\ result'[p].new_status = "none"
                       /\ result'[p].message = "Consent request not found"
                       /\ store' = store]_vars

\* a deny on a row that was already GRANTED has been rejected
C13_Witness ==
    \E p \in Procs :
        /\ pc[p] = "done" /\ result[p].op = "deny_consent" /\ ~result[p].success
        /\ result[p].new_status = GRANTED
        /\ result[p].message = "Request already granted"
        /\ \E row \in store : row.id = call[p].request_id /\ row.status = GRANTED

\* the status changes of this step: <<old, new>> for every row that is in the
\* store before and after with a different status
StatusChanges ==
    {<<pair[1].status, pair[2].status>> :
        pair \in {q \in store \X store' : q[1].id = q[2].id}}
        \ {<<status, status>> : status \in ConsentStatus}

\* process p's sweep runs its UPDATE in this step
SweepStep(p) == pc[p] = "expire_update" /\ pc'[p] = "done"

\* C14: a row's status changes only along PENDING -> GRANTED,
\* PENDING -> REVOKED, GRANTED -> REVOKED and GRANTED -> EXPIRED; a row that is
\* REVOKED or EXPIRED never changes status again.
C14_OnlyListedTransitions ==
    [][StatusChanges \subseteq
           {<<PENDING, GRANTED>>, <<PENDING, REVOKED>>,
            <<GRANTED, REVOKED>>, <<GRANTED, EXPIRED>>}]_vars

\* C14 as amended: a row's status changes only along PENDING -> GRANTED,
\* PENDING -> REVOKED, GRANTED -> REVOKED, and, by the sweep only,
\* GRANTED -> EXPIRED and PENDING -> EXPIRED; a row that is REVOKED or EXPIRED
\* never changes status again.
C14_TransitionsWithPendingExpiry ==
    [][/\ StatusChanges \subseteq
             {<<PENDING, GRANTED>>, <<PENDING, REVOKED>>, <<GRANTED, REVOKED>>,
              <<GRANTED, EXPIRED>>, <<PENDING, EXPIRED>>}
       /\ (\E change \in StatusChanges : change[2] = EXPIRED)
              => \E p \in Procs : SweepStep(p)]_vars

\* the store holds a row the sweep expired while it was PENDING, a row it
\* expired after a grant, or a REVOKED row past its expiry that a sweep ran over
C14_Witness ==
    /\ \E row \in store : row.status = EXPIRED /\ row.responded_at = NoTime
    /\ \E row \in store :
           /\ row.status = REVOKED /\ row.expires_at <= now
           /\ \E p \in Procs : pc[p] = "done" /\ result[p].op = "expire_old_requests"
                                 /\ call[p].now >= row.expires_at

\* the rows a sweep reading the clock at t has to expire
Eligible(st, t) ==
    {row \in st : row.status \in {PENDING, GRANTED} /\ row.expires_at <= t}

\* C15: expire_old_requests sets to EXPIRED exactly the rows whose status is
\* PENDING or GRANTED and whose expires_at <= now (the sweep's clock reading),
\* returns the number of rows it changed and leaves every other row
\* unchanged; afterwards no row is PENDING or GRANTED with expires_at <= now.
C15_SweepExpiresExactlyEligible ==
    [][\A p \in Procs :
          SweepStep(p)
          => /\ store' = (store \ Eligible(store, call[p].now)) \cup
                    {[row EXCEPT !.status = EXPIRED, !.updated_at = call[p].now] :
                        row \in Eligible(store, call[p].now)}
             /\ result'[p].outcome = "return"
             /\ result'[p].count = Cardinality(store \ store')
             /\ Eligible(store', call[p].now) = {}]_vars

\* a sweep has expired one row and left alone a REVOKED row past its expiry
C15_Witness ==
    \E p \in Procs :
        /\ pc[p] = "done" /\ result[p].op = "expire_old_requests"
        /\ result[p].count = 1
        /\ \E row \in store : row.status = EXPIRED /\ row.updated_at = call[p].now
        /\ \E row \in store : row.status = REVOKED /\ row.expires_at <= call[p].now
                                /\ row.updated_at < call[p].now

\* C16: expire_old_requests is idempotent: in the store a sweep leaves
\* behind, a second sweep at the same clock reading matches no row, so it
\* returns 0 and changes nothing.
C16_SweepIdempotent ==
    [][\A p \in Procs :
          SweepStep(p)
          => /\ Cardinality(expire_matches(store', call[p].now)) = 0
             /\ expire_old_requests(store', call[p].now) = store']_vars

\* a sweep that expired two rows has completed
C16_Witness ==
    \E p \in Procs :
        /\ pc[p] = "done" /\ result[p].op = "expire_old_requests"
        /\ result[p].count = 2
        /\ \A row \in store : row.status = EXPIRED

\* the callers that only ever sweep
SweepOnly == Procs \ SeqProcs

\* C17: when two sweeps overlap, the one whose UPDATE runs second counts
\* exactly the rows it changes, none of which the first one had expired.
\* When nothing but the two sweeps touched the store (the first caller holds
\* its result, the second only ever sweeps) and the second read the clock no
\* later than the first, the second counts 0 and leaves the store as the
\* first sweep alone left it.
C17_OverlappingSweeps ==
    [][\A p \in Procs : \A q \in Procs :
          (/\ p # q /\ SweepStep(q)
           /\ pc[p] = "done" /\ result[p].op = "expire_old_requests")
          => /\ result'[q].count = Cardinality(store \ store')
             /\ \A row \in store \ store' : row.status # EXPIRED
             /\ \A row \in store : row.status = EXPIRED => row \in store'
             /\ (p \in SeqProcs /\ q \in SweepOnly /\ call[q].now <= call[p].now)
                    => (store' = store /\ result'[q].count = 0)]_vars

\* two sweeps that read the same clock have both completed: one expired a
\* row, the other counted nothing
C17_Witness ==
    \E p \in SeqProcs : \E q \in SweepOnly :
        /\ p # q
        /\ pc[p] = "done" /\ result[p].op = "expire_old_requests"
        /\ pc[q] = "done" /\ result[q].op = "expire_old_requests"
        /\ call[p].now = call[q].now
        /\ result[p].count = 1 /\ result[q].count = 0
        /\ \E row \in store : row.status = EXPIRED /\ row.updated_at = call[p].now

\* process p runs a direct update_status call in this step
UpdateStep(p) == pc[p] = "idle" /\ call'[p].op = "update_status"

\* C18: update_status(id, new_status) on an existing row sets status to
\* new_status and updated_at to now; it sets responded_at to now if and only
\* if new_status is GRANTED or REVOKED, and for PENDING or EXPIRED it leaves
\* responded_at as it was stored.
C18_UpdateStatusKeepsRespondedAt ==
    [][\A p \in Procs :
          UpdateStep(p)
          => \A row \in store :
                 row.id = call'[p].request_id
                 => \E next \in store' :
                        /\ next.id = row.id
                        /\ next.status = call'[p].status
                        /\ next.updated_at = now
                        /\ next.responded_at =
                               IF call'[p].status \in {GRANTED, REVOKED}
                                  THEN now ELSE row.responded_at]_vars

\* C19: update_status on an id that is not in the store fails with
\* RequestNotFoundError and leaves every row unchanged.
C19_UpdateStatusMissingId ==
    [][\A p \in Procs :
          (UpdateStep(p) /\ \A row \in store : row.id # call'[p].request_id)
          => /\ result'[p].outcome = "raise"
             /\ result'[p].error = "RequestNotFoundError"
             /\ store' = store]_vars

\* an update for an id no row has failed while the store holds rows
C19_Witness ==
    \E p \in Procs :
        /\ pc[p] = "done" /\ result[p].op = "update_status"
        /\ result[p].outcome = "raise"
        /\ Cardinality(store) = 2
        /\ \A row \in store : row.id # call[p].request_id

\* process p runs a direct create call in this step
CreateStep(p) == pc[p] = "idle" /\ call'[p].op = "create"

\* C20: create fails with DuplicateRequestError whenever a row with the same
\* tuple (requester type, requester value, target type, target value, scope)
\* exists, whatever that row's status and whatever the new request's id or
\* expires_at; otherwise it inserts the request and returns it with its id.
C20_CreateRejectsDuplicates ==
    [][\A p \in Procs :
          CreateStep(p)
          => /\ KeyRows(store, CallKey(call'[p])) # {}
                    => /\ result'[p].outcome = "raise"
                       /\ result'[p].error = "DuplicateRequestError"
                       /\ KeyRows(store', CallKey(call'[p])) \subseteq store
             /\ KeyRows(store, CallKey(call'[p])) = {}
                    => /\ result'[p].outcome = "return"
                       /\ \E row \in store' :
                              /\ row \notin store
                              /\ store' = store \cup {row}
                              /\ RowKey(row) = CallKey(call'[p])
                              /\ row.id = result'[p].id
                              /\ row.status = PENDING
                              /\ \A other \in store : other.id # row.id]_vars

\* a create has been rejected after an earlier create and a later one succeeded
C20_Witness ==
    \E p \in Procs :
        /\ pc[p] = "done" /\ result[p].op = "create"
        /\ result[p].outcome = "raise"
        /\ result[p].error = "DuplicateRequestError"
        /\ next_id > 2

\* process p runs a simulate_response call in this step
SimulateStep(p) == pc[p] = "idle" /\ call'[p].op = "simulate_response"

\* the PENDING rows addressed to the target of call c by its requester value
SimulateMatching(st, c) ==
    {row \in st :
        /\ row.target_contact_type = c.target.contact_type
        /\ row.target_contact_value = c.target.contact_value
        /\ row.requester_contact_value = c.requester_contact_value
        /\ row.status = PENDING}

\* the spellings of YES, and of NO or REVOKE, whatever their case
YesResponses == {"yes", "Yes", "YES"}
NoResponses == {"no", "No", "NO", "revoke", "Revoke", "REVOKE"}

\* the store after row has been answered with status at time t
Answered(st, row, status, t) ==
    (st \ {row}) \cup
        {[row EXCEPT !.status = status, !.updated_at = t, !.responded_at = t]}

ContainsNotFound(message) == message \in {"Consent request not found"}

\* C22: simulate_response returns success = false and leaves every row
\* unchanged when the response is none of YES, NO, REVOKE, and when no
\* PENDING request from the requester value to the target exists, then with
\* a message containing "not found"; it never changes a row that is GRANTED,
\* REVOKED or EXPIRED.
C22_SimulateRejects ==
    [][\A p \in Procs :
          SimulateStep(p)
          => /\ (call'[p].response \notin YesResponses \cup NoResponses
                  \/ SimulateMatching(store, call'[p]) = {})
                    => /\ result'[p].outcome = "return"
                       /\ ~result'[p].success
                       /\ store' = store
             /\ SimulateMatching(store, call'[p]) = {}
                    => /\ result'[p].outcome = "return"
                       /\ ContainsNotFound(result'[p].message)
             /\ \A row \in store : row.status # PENDING => row \in store']_vars

\* C23: while a row of the pair is GRANTED and not yet at its expires_at it
\* stays so in the next state, and check_consent for the requester and the
\* target, with that row's scope or without a scope, returns true; when every
\* row of the pair is REVOKED, check_consent returns false.
C23_CheckFollowsResponse ==
    [][/\ \A row \in store :
             (row.status = GRANTED /\ now' < row.expires_at) => row \in store'
       /\ \A p \in Procs :
             CheckStep(p)
             => /\ (\E row \in ActiveRows(store, now', call'[p].requester, call'[p].target) :
                        call'[p].scope \in {NoScope, row.scope})
                       => (result'[p].outcome = "return" /\ result'[p].value)
                /\ (\A row \in PairRows(store, call'[p].requester, call'[p].target) :
                        row.status = REVOKED)
                       => (result'[p].outcome = "return" /\ ~result'[p].value)]_vars

\* process p runs a list_requests call in this step
ListStep(p) == pc[p] = "idle" /\ call'[p].op = "list_requests"

\* the rows list_requests has to report for call c
Listed(st, c) ==
    {row \in st :
        /\ IF c.target # NoContact
              THEN /\ row.target_contact_type = c.target.contact_type
                   /\ row.target_contact_value = c.target.contact_value
              ELSE /\ c.requester # NoContact
                   /\ row.requester_contact_type = c.requester.contact_type
                   /\ row.requester_contact_value = c.requester.contact_value
        /\ c.status # NoStatus => row.status = c.status}

\* C24: list_requests given a target returns one summary for each row with
\* that target, given only a requester one for each row with that requester,
\* restricted to the given status when there is one; given neither it
\* returns an empty list; it always returns a list and changes nothing.
C24_ListRequests ==
    [][\A p \in Procs :
          ListStep(p)
          => /\ result'[p].outcome = "return"
             /\ store' = store
             /\ Cardinality(result'[p].requests) = Cardinality(Listed(store, call'[p]))
             /\ \A row \in Listed(store, call'[p]) :
                    \E s \in result'[p].requests :
                        /\ s.id = row.id /\ s.status = row.status
                        /\ s.scope = row.scope
                        /\ s.target.value = row.target_contact_value
                        /\ s.requester.value = row.requester_contact_value]_vars

\* a listing by requester and status has returned one of the requester's
\* two rows while the store also holds a row of the other requester
C24_Witness ==
    \E p \in Procs :
        /\ pc[p] = "done" /\ result[p].op = "list_requests"
        /\ call[p].target = NoContact /\ call[p].status = GRANTED
        /\ Cardinality(result[p].requests) = 1
        /\ Cardinality(find_by_requester(store, call[p].requester, NoStatus)) = 2
        /\ Cardinality(store) = 3

\* the stored row an entity-method call of process p is about
MethodRow(p) == CHOOSE row \in store : row.id = call'[p].request_id

\* C25: whatever the status and the pair (now, expires_at), is_active() is
\* true exactly when the status is GRANTED and now < expires_at, and
\* is_expired() is true exactly when now >= expires_at; at now = expires_at
\* a GRANTED record is not active and is expired.
C25_ActiveAndExpired ==
    [][\A p \in Procs :
          /\ (pc[p] = "idle" /\ call'[p].op = "is_active")
             => (result'[p].value
                   <=> (MethodRow(p).status = GRANTED
                        /\ now < MethodRow(p).expires_at))
          /\ (pc[p] = "idle" /\ call'[p].op = "is_expired")
             => (result'[p].value <=> now >= MethodRow(p).expires_at)]_vars

\* a GRANTED record asked at the instant of its expiry said it is not active
C25_Witness ==
    \E p \in Procs : \E row \in store :
        /\ pc[p] = "done" /\ result[p].op = "is_active"
        /\ row.id = call[p].request_id
        /\ row.status = GRANTED /\ row.expires_at = now
        /\ result[p].value = FALSE

\* C26: create followed by get_by_id with the entity's id returns a record
\* identical to the entity that was created: id, requester, target, scope,
\* status, expires_at, created_at, updated_at and responded_at, also when
\* the requester or the target has no display name.
C26_RoundTrip ==
    \A p \in Procs :
        (pc[p] = "done" /\ result[p].op = "get_by_id")
        => /\ result[p].found
           /\ result[p].entity = call[p].entity

WebOps == {"show_consent_page", "grant_consent_page", "deny_consent_page"}

\* process p serves a consent-link request in this step
WebStep(p) == pc[p] = "idle" /\ call'[p].op \in WebOps

\* the rows whose id the token of process p's request names
TokenRows(p) == {row \in store : token_of(row.id) = call'[p].token}

\* C27: for show, grant and deny alike, a token that is not a UUID gets a
\* 400 and nothing changes; an id with no record gets a 404; a record that
\* is not PENDING gets a 200 'already responded' page and keeps its status.
C27_ConsentLinkErrors ==
    [][\A p \in Procs :
          WebStep(p)
          => /\ (\A id \in Ids : token_of(id) # call'[p].token)
                => /\ result'[p].outcome = "raise"
                   /\ result'[p].status_code = 400
                   /\ <<store, sent, next_id>>' = <<store, sent, next_id>>
             /\ ((\E id \in Ids : token_of(id) = call'[p].token) /\ TokenRows(p) = {})
                => /\ result'[p].outcome = "raise"
                   /\ result'[p].status_code = 404
                   /\ store' = store
             /\ \A row \in TokenRows(p) :
                    row.status # PENDING
                    => /\ result'[p].outcome = "return"
                       /\ result'[p].status_code = 200
                       /\ result'[p].page = "already_responded"
                       /\ store' = store]_vars

\* one browser was told 400 for a token that is no UUID while the other was
\* told 'already responded' for a record that had been denied
C27_Witness ==
    \E p \in Procs, q \in Procs : \E row \in store :
        /\ pc[p] = "done" /\ result[p].op = "grant_consent_page"
        /\ call[p].token = "not-a-uuid" /\ result[p].status_code = 400
        /\ pc[q] = "done" /\ result[q].op = "grant_consent_page"
        /\ call[q].token = token_of(row.id) /\ row.status = REVOKED
        /\ result[q].outcome = "return"
        /\ result[q].page = "already_responded"

\* C29: a request_consent_sms call with expires_in_days <= 0 or > 3650, or
\* with a phone number that is not E.164, is rejected by the request schema
\* before the service runs: the service starts only with arguments that
\* pass, and a rejected call creates no record, sends no notification and
\* leaves the store as it was.
C29_SchemaRejects ==
    [][\A p \in Procs :
          pc[p] = "idle"
          => /\ call'[p].op = "request_consent"
                => /\ call'[p].expires_in_days > 0
                   /\ call'[p].expires_in_days <= 3650
                   /\ E164_PATTERN(call'[p].requester.contact_value)
                   /\ E164_PATTERN(call'[p].target.contact_value)
             /\ call'[p].op = "request_consent_sms"
                => /\ \/ call'[p].expires_in_days <= 0
                      \/ call'[p].expires_in_days > 3650
                      \/ ~E164_PATTERN(call'[p].requester_phone)
                      \/ ~E164_PATTERN(call'[p].target_phone)
                   /\ result'[p].outcome = "raise"
                   /\ result'[p].error = "ValidationError"
                   /\ <<store, sent, next_id>>' = <<store, sent, next_id>>]_vars

\* a call asking for 3651 days was rejected while the store held a record
C29_Witness ==
    \E p \in Procs :
        /\ pc[p] = "done" /\ result[p].op = "request_consent_sms"
        /\ result[p].error = "ValidationError"
        /\ call[p].expires_in_days = 3651
        /\ E164_PATTERN(call[p].requester_phone)
        /\ E164_PATTERN(call[p].target_phone)
        /\ store # {}

\* C28: records are never destroyed and their identity never changes: every
\* row of the store is still there after every step, with the same id,
\* requester, target, scope, expires_at and created_at.
C28_RecordsKept ==
    [][\A row \in store :
          \E later \in store' :
              /\ later.id = row.id
              /\ RowKey(later) = RowKey(row)
              /\ later.expires_at = row.expires_at
              /\ later.created_at = row.created_at]_vars

\* C30: once the row of a tuple is REVOKED or EXPIRED, every later step
\* leaves exactly that row for the tuple in the store, and no notification
\* is sent for the tuple except the one that belongs to the row's own
\* creation.
C30_NoRecreation ==
    [][\A row \in store :
          row.status \in {REVOKED, EXPIRED}
          => /\ KeyRows(store', RowKey(row)) = {row}
             /\ sent'[RowKey(row)] # sent[RowKey(row)]
                => \E p \in Procs : pc[p] = "rc_send" /\ call[p].saved_id = row.id]_vars

\* C31: outside the test environment the admin tool is not among the listed
\* tools, and a call to it ends in PermissionError without reaching the
\* service: no record changes.
C31_AdminToolTestOnly ==
    [][\A p \in Procs :
          (pc[p] = "idle" /\ env # "test")
          => /\ call'[p].op # "simulate_response"
             /\ call'[p].op = "list_tools"
                => "admin_simulate_response" \notin result'[p].tools
             /\ call'[p].op = "admin_simulate_response"
                => /\ result'[p].outcome = "raise"
                   /\ result'[p].error = "PermissionError"
                   /\ store' = store]_vars

\* in production a well-formed YES for a PENDING request was refused
C31_Witness ==
    \E p \in Procs : \E row \in store :
        /\ env = "production"
        /\ pc[p] = "done" /\ result[p].op = "admin_simulate_response"
        /\ result[p].error = "PermissionError"
        /\ call[p].target_contact_type = PHONE /\ call[p].response = "yes"
        /\ row.status = PENDING
        /\ row.target_contact_value = call[p].target_contact_value
        /\ row.requester_contact_value = call[p].requester_contact_value

\* C32: with grant, deny, simulate and the sweep interleaved between their
\* store calls, a request leaves PENDING once: no step replaces a status
\* other than PENDING, except the sweep taking GRANTED to EXPIRED.
C32_LeavesPendingOnce ==
    [][\A row \in store : \A later \in store' :
          (later.id = row.id /\ row.status # PENDING /\ later.status # row.status)
          => (row.status = GRANTED /\ later.status = EXPIRED)]_vars

\* C33: a create that fails with DuplicateRequestError leaves the store as
\* it was: every record and every status change made before it is still
\* there.
C33_FailedCreateKeepsStore ==
    [][\A p \in Procs :
          (/\ pc[p] = "idle" /\ pc'[p] = "done"
           /\ result'[p].op = "create" /\ result'[p].outcome = "raise"
           /\ result'[p].error = "DuplicateRequestError")
          => store' = store]_vars

\* get_active_consent, asked for the row's own tuple, returns this row
ReturnedActive(row) ==
    LET consent == get_active_consent(
                       store, now,
                       ContactInfo(row.requester_contact_type, row.requester_contact_value),
                       ContactInfo(row.target_contact_type, row.target_contact_value),
                       row.scope)
    IN  consent.kind = "one" /\ consent.row = row

\* C34: at every instant each GRANTED row is either returned by
\* get_active_consent for its tuple or matched by expire_old_requests, never
\* both and never neither, and is_active() says what the lookup says.
C34_ActiveOrEligible ==
    \A row \in store :
        row.status = GRANTED
        => /\ ReturnedActive(row) # (row \in expire_matches(store, now))
           /\ ReturnedActive(row) = is_active(row, now)

\* at the instant one GRANTED row expires another is still active, and a
\* check has just answered true
C34_Witness ==
    \E p \in Procs : \E r1 \in store : \E r2 \in store :
        /\ r1.status = GRANTED /\ r1.expires_at = now
        /\ r1 \in expire_matches(store, now) /\ ~ReturnedActive(r1)
        /\ r2.status = GRANTED /\ r2.expires_at > now /\ ReturnedActive(r2)
        /\ pc[p] = "done" /\ result[p].op = "check_consent"
        /\ result[p].outcome = "return" /\ result[p].value = TRUE

\* C35: for records made by request_consent and changed by grant, deny,
\* simulate and the sweep only: a PENDING record has no responded_at, a
\* GRANTED or REVOKED record has one, and a record that is EXPIRED has the
\* responded_at it had before the step.
C35_RespondedAtFollowsStatus ==
    [][\A later \in store' :
          /\ later.status = PENDING => later.responded_at = NoTime
          /\ later.status \in {GRANTED, REVOKED} => later.responded_at # NoTime
          /\ later.status = EXPIRED
             => \A row \in store :
                    row.id = later.id => later.responded_at = row.responded_at]_vars

\* the sweep has expired a record that had been granted: it still carries
\* the time of the grant
C35_Witness ==
    \E p \in Procs : \E row \in store :
        /\ pc[p] = "done" /\ result[p].op = "expire_old_requests"
        /\ result[p].count > 0
        /\ row.status = EXPIRED /\ row.responded_at # NoTime

\* C36: over any sequence of request_consent calls the provider's send is
\* invoked at most once for each (requester, target, scope).
C36_SentOncePerTuple ==
    \A k \in Keys : sent[k] <= 1

\* C37: every PENDING record has had a send attempted for it, or its
\* creating call is about to send; in particular request_consent never
\* answers "already pending" for a tuple that was never sent a request.
C37_PendingWasSent ==
    /\ \A row \in store :
           row.status = PENDING
           => \/ sent[RowKey(row)] >= 1
              \/ \E p \in Procs : pc[p] = "rc_send" /\ call[p].saved_id = row.id
    /\ \A p \in Procs :
           (Returned(p) /\ result[p].message = "Consent request already pending")
           => sent[CallKey(call[p])] >= 1

\* the requester and the target of a row
RowRequester(row) == ContactInfo(row.requester_contact_type, row.requester_contact_value)
RowTarget(row) == ContactInfo(row.target_contact_type, row.target_contact_value)

\* C38: grant_consent on a PENDING record whose expires_at has passed
\* returns success and sets the record to GRANTED, and check_consent for the
\* record's requester and target answers afterwards what it answered before:
\* false for the record, at that time and at every later one.
C38_GrantIgnoresExpiry ==
    [][\A p \in Procs :
          (pc[p] = "idle" /\ call'[p].op = "grant_consent")
          => \A row \in store :
                 (/\ row.id = call'[p].request_id
                  /\ row.status = PENDING /\ row.expires_at <= now)
                 => /\ result'[p].success
                    /\ result'[p].new_status = GRANTED
                    /\ \E later \in store' : later.id = row.id /\ later.status = GRANTED
                    /\ \A scope \in OptScopes : \A t \in now..MaxTime :
                           /\ get_active_consent(store', t, RowRequester(row),
                                                 RowTarget(row), scope)
                              = get_active_consent(store, t, RowRequester(row),
                                                   RowTarget(row), scope)
                           /\ scope = row.scope
                              => ~check_consent(
                                     get_active_consent(store', t, RowRequester(row),
                                                        RowTarget(row), scope), t)]_vars

\* a record was granted at or after its expiry and a check for its tuple
\* has answered false
C38_Witness ==
    \E p \in Procs : \E row \in store :
        /\ row.status = GRANTED /\ row.responded_at >= row.expires_at
        /\ pc[p] = "done" /\ result[p].op = "check_consent"
        /\ result[p].outcome = "return" /\ result[p].value = FALSE
        /\ call[p].requester = RowRequester(row)
        /\ call[p].target = RowTarget(row)
        /\ call[p].scope = row.scope

ReadOps == {"check_consent", "list_requests", "get_request_by_id"}

\* C39: check_consent, list_requests and get_request_by_id change nothing:
\* every record is as it was, none is created, none is expired.
C39_ReadsChangeNothing ==
    [][\A p \in Procs :
          (pc[p] = "idle" /\ call'[p].op \in ReadOps)
          => /\ store' = store
             /\ next_id' = next_id
             /\ sent' = sent]_vars

\* a check has answered false for a GRANTED record past its expires_at, and
\* the record is still GRANTED
C39_Witness ==
    \E p \in Procs : \E row \in store :
        /\ pc[p] = "done" /\ result[p].op = "check_consent"
        /\ result[p].outcome = "return" /\ result[p].value = FALSE
        /\ call[p].requester = RowRequester(row)
        /\ call[p].target = RowTarget(row)
        /\ row.status = GRANTED /\ row.expires_at <= now

\* C40: display names are not part of identity.  A request_consent call for
\* a tuple that has a PENDING record, under whatever names, is answered with
\* that record's id and creates nothing; the store never holds two records
\* for one tuple; and check_consent answers what it would answer under any
\* other names.
C40_NamesNotIdentity ==
    [][\A p \in Procs :
          /\ pc[p] = "rc_pending"
             => \A row \in KeyRows(store, CallKey(call[p])) :
                    row.status = PENDING
                    => /\ pc'[p] = "done"
                       /\ result'[p].outcome = "return"
                       /\ result'[p].message = "Consent request already pending"
                       /\ result'[p].request_id = row.id
                       /\ store' = store
          /\ \A r1 \in store' : \A r2 \in store' :
                 RowKey(r1) = RowKey(r2) => r1 = r2
          /\ (CheckStep(p) /\ result'[p].outcome = "return")
             => \A rn \in RequesterNames : \A tn \in TargetNames :
                    result'[p].value =
                        check_consent(
                            get_active_consent(
                                store, now,
                                NamedContactInfo(call'[p].requester, rn),
                                NamedContactInfo(call'[p].target, tn),
                                call'[p].scope), now')]_vars

\* a request under other names than the PENDING record's was answered with
\* that record's id
C40_Witness ==
    \E p \in Procs : \E row \in store :
        /\ Returned(p)
        /\ result[p].message = "Consent request already pending"
        /\ result[p].request_id = row.id
        /\ row.status = PENDING
        /\ row.requester_name # call[p].requester.name
        /\ row.target_name # call[p].target.name

====
